---------------------------- MODULE Spec2Model ----------------------------
(***************************************************************************)
(* Channel3 MCP server (src/src/index.ts, lines 1-367): an auth gate       *)
(* (withAuth) in front of two mounted MCP transports, and four tools that  *)
(* each forward one HTTP request to the upstream API.                      *)
(*                                                                         *)
(* Strings are sequences of tokens (single characters where the code looks *)
(* at characters: header values, identifiers, query values), so that       *)
(* startsWith, slice, URL parsing and escaping are computed, not assumed.  *)
(***************************************************************************)
EXTENDS Integers, Sequences, FiniteSets, TLC

VARIABLES conns, calls

vars == <<conns, calls>>

(***************************************************************************)
(* Bounds of the model.                                                    *)
(***************************************************************************)
MaxConns == 2
MaxCalls == 2
MaxIdLen == 2
MaxQueryLen == 2

Conns == 1..MaxConns
CallIds == 1..MaxCalls

(***************************************************************************)
(* JavaScript values and string primitives.                                *)
(***************************************************************************)
\* null / undefined: what Headers.get returns for a missing header.
Null == <<"null">>

\* JavaScript truthiness of a string-or-null: null and "" are falsy.
Truthy(v) == v # Null /\ v # <<>>

\* String.prototype.startsWith
StartsWith(s, p) == Len(s) >= Len(p) /\ SubSeq(s, 1, Len(p)) = p

\* String.prototype.slice(n)
Slice(s, n) == SubSeq(s, n + 1, Len(s))

\* String.prototype.includes
Contains(s, sub) ==
  \/ sub = <<>>
  \/ \E i \in 1..Len(s) : i + Len(sub) - 1 <= Len(s) /\ SubSeq(s, i, i + Len(sub) - 1) = sub

\* a || b on strings
OrElse(a, b) == IF Truthy(a) THEN a ELSE b

Digit == <<"0", "1", "2", "3", "4", "5", "6", "7", "8", "9">>

RECURSIVE NatToString(_)
NatToString(n) ==
  IF n < 10 THEN <<Digit[n + 1]>>
  ELSE NatToString(n \div 10) \o <<Digit[(n % 10) + 1]>>

\* Number.prototype.toString / template interpolation of an integer
NumToString(n) == IF n < 0 THEN <<"-">> \o NatToString(0 - n) ELSE NatToString(n)

\* All token sequences over alphabet A of length at most n.
RECURSIVE StringsUpTo(_, _)
StringsUpTo(A, n) ==
  IF n = 0 THEN {<<>>}
  ELSE LET S == StringsUpTo(A, n - 1)
       IN  S \cup {Append(s, a) : s \in {t \in S : Len(t) = n - 1}, a \in A}

\* The empty object {}.
EmptyObject == [k \in {} |-> k]

(***************************************************************************)
(* JavaScript values as the handlers see them (tool parameters, parsed     *)
(* JSON): tagged records; an object is its members in insertion order.     *)
(* Every value has the same fields: s the characters of a string, n the    *)
(* number, a the elements of an array, m the members of an object.         *)
(***************************************************************************)
JValue(t, s, n, a, m) == [t |-> t, s |-> s, n |-> n, a |-> a, m |-> m]
Undefined == JValue("undefined", <<>>, 0, <<>>, <<>>)
JNull == JValue("null", <<>>, 0, <<>>, <<>>)
JStr(s) == JValue("str", s, 0, <<>>, <<>>)
JNum(n) == JValue("num", <<>>, n, <<>>, <<>>)
JArr(elems) == JValue("arr", <<>>, 0, elems, <<>>)
JObj(members) == JValue("obj", <<>>, 0, <<>>, members)
Member(key, value) == [k |-> <<key>>, v |-> value]

\* obj[key]; undefined when obj has no such member
Get(obj, key) ==
  IF \E i \in 1..Len(obj.m) : obj.m[i].k = <<key>>
  THEN obj.m[CHOOSE i \in 1..Len(obj.m) : obj.m[i].k = <<key>>].v
  ELSE Undefined

\* { ...obj, key: value }: an existing member keeps its place, a new one is added last
Set(obj, key, value) ==
  IF \E i \in 1..Len(obj.m) : obj.m[i].k = <<key>>
  THEN JObj([i \in 1..Len(obj.m) |->
               IF obj.m[i].k = <<key>> THEN Member(key, value) ELSE obj.m[i]])
  ELSE JObj(Append(obj.m, Member(key, value)))

\* a ?? b
Coalesce(a, b) == IF a.t \in {"undefined", "null"} THEN b ELSE a

\* The members of an object as a set (JSON objects are equal up to member order).
MemberSet(obj) == {obj.m[i] : i \in 1..Len(obj.m)}

(***************************************************************************)
(* JSON.stringify and JSON.parse on token sequences.  String escapes are   *)
(* not modelled: string contents hold no quote or backslash.               *)
(***************************************************************************)
Quote == "\""
Whitespace == {" "}

RECURSIVE JSONStringify(_)
RECURSIVE StringifyMembers(_, _)
RECURSIVE StringifyElements(_)

StringifyMembers(ms, first) ==
  IF ms = <<>> THEN <<>>
  ELSE IF Head(ms).v.t = "undefined" THEN StringifyMembers(Tail(ms), first)
  ELSE (IF first THEN <<>> ELSE <<",">>)
       \o <<Quote>> \o Head(ms).k \o <<Quote, ":">> \o JSONStringify(Head(ms).v)
       \o StringifyMembers(Tail(ms), FALSE)

StringifyElements(es) ==
  IF es = <<>> THEN <<>>
  ELSE JSONStringify(Head(es))
       \o (IF Tail(es) = <<>> THEN <<>> ELSE <<",">> \o StringifyElements(Tail(es)))

JSONStringify(val) ==
  CASE val.t = "str" -> <<Quote>> \o val.s \o <<Quote>>
    [] val.t = "num" -> NumToString(val.n)
    [] val.t = "null" -> <<"null">>
    [] val.t = "arr" -> <<"[">> \o StringifyElements(val.a) \o <<"]">>
    [] val.t = "obj" -> <<"{">> \o StringifyMembers(val.m, TRUE) \o <<"}">>

IsDigit(c) == \E d \in 1..10 : Digit[d] = c
DigitValue(c) == (CHOOSE d \in 1..10 : Digit[d] = c) - 1

RECURSIVE SkipWs(_, _)
SkipWs(t, i) == IF i <= Len(t) /\ t[i] \in Whitespace THEN SkipWs(t, i + 1) ELSE i

RECURSIVE IndexFrom(_, _, _)
\* the first index >= i of token c in t, or Len(t) + 1
IndexFrom(t, c, i) ==
  IF i > Len(t) \/ t[i] = c THEN i ELSE IndexFrom(t, c, i + 1)

RECURSIVE DigitsEnd(_, _)
DigitsEnd(t, i) == IF i <= Len(t) /\ IsDigit(t[i]) THEN DigitsEnd(t, i + 1) ELSE i

RECURSIVE DigitsValue(_, _)
DigitsValue(ds, acc) ==
  IF ds = <<>> THEN acc ELSE DigitsValue(Tail(ds), acc * 10 + DigitValue(Head(ds)))

ParseFail == [ok |-> FALSE, v |-> Undefined, next |-> 0]
Parsed(val, next) == [ok |-> TRUE, v |-> val, next |-> next]

RECURSIVE ParseValue(_, _)
RECURSIVE ParseMembers(_, _, _)
RECURSIVE ParseElements(_, _, _)

ParseValue(t, i0) ==
  LET i == SkipWs(t, i0) IN
  IF i > Len(t) THEN ParseFail
  ELSE IF t[i] = Quote THEN
         LET j == IndexFrom(t, Quote, i + 1) IN
         IF j > Len(t) THEN ParseFail ELSE Parsed(JStr(SubSeq(t, i + 1, j - 1)), j + 1)
  ELSE IF IsDigit(t[i]) THEN
         LET j == DigitsEnd(t, i) IN Parsed(JNum(DigitsValue(SubSeq(t, i, j - 1), 0)), j)
  ELSE IF t[i] = "-" /\ i < Len(t) /\ IsDigit(t[i + 1]) THEN
         LET j == DigitsEnd(t, i + 1)
         IN  Parsed(JNum(0 - DigitsValue(SubSeq(t, i + 1, j - 1), 0)), j)
  ELSE IF t[i] = "null" THEN Parsed(JNull, i + 1)
  ELSE IF t[i] = "{" THEN
         LET j == SkipWs(t, i + 1) IN
         IF j <= Len(t) /\ t[j] = "}" THEN Parsed(JObj(<<>>), j + 1)
         ELSE ParseMembers(t, j, <<>>)
  ELSE IF t[i] = "[" THEN
         LET j == SkipWs(t, i + 1) IN
         IF j <= Len(t) /\ t[j] = "]" THEN Parsed(JArr(<<>>), j + 1)
         ELSE ParseElements(t, j, <<>>)
  ELSE ParseFail

ParseMembers(t, i0, acc) ==
  LET key == ParseValue(t, i0) IN
  IF ~key.ok \/ key.v.t # "str" THEN ParseFail
  ELSE LET c == SkipWs(t, key.next) IN
       IF c > Len(t) \/ t[c] # ":" THEN ParseFail
       ELSE LET val == ParseValue(t, c + 1) IN
            IF ~val.ok THEN ParseFail
            ELSE LET e == SkipWs(t, val.next)
                     ms == Append(acc, [k |-> key.v.s, v |-> val.v])
                 IN  IF e > Len(t) THEN ParseFail
                     ELSE IF t[e] = "}" THEN Parsed(JObj(ms), e + 1)
                     ELSE IF t[e] = "," THEN ParseMembers(t, e + 1, ms)
                     ELSE ParseFail

ParseElements(t, i0, acc) ==
  LET val == ParseValue(t, i0) IN
  IF ~val.ok THEN ParseFail
  ELSE LET e == SkipWs(t, val.next)
           es == Append(acc, val.v)
       IN  IF e > Len(t) THEN ParseFail
           ELSE IF t[e] = "]" THEN Parsed(JArr(es), e + 1)
           ELSE IF t[e] = "," THEN ParseElements(t, e + 1, es)
           ELSE ParseFail

\* JSON.parse(text): the value, or the SyntaxError it throws
JSONParse(t) ==
  LET r == ParseValue(t, 1) IN
  IF r.ok /\ SkipWs(t, r.next) > Len(t)
  THEN [ok |-> TRUE, value |-> r.v, message |-> <<>>]
  ELSE [ok |-> FALSE, value |-> Undefined,
        message |-> IF SkipWs(t, 1) > Len(t)
                    THEN <<"Unexpected end of JSON input">>
                    ELSE <<"Unexpected token in JSON">>]

(***************************************************************************)
(* URLs.  A URL string is the origin (one token) followed by characters.   *)
(* ParseURL is the URL parser fetch applies to its argument (path, query   *)
(* and fragment states); what it yields is what the upstream is asked for. *)
(***************************************************************************)
Origin == "https://api.trychannel3.com"

BASE_URL == <<Origin, "/", "v0">>

\* Characters that are written %XX, with their codes.
PctChars == {" ", "#", "%", "&", "+", "/", "=", "?"}
PctOf(c) ==
  CASE c = " " -> <<"%", "2", "0">>
    [] c = "#" -> <<"%", "2", "3">>
    [] c = "%" -> <<"%", "2", "5">>
    [] c = "&" -> <<"%", "2", "6">>
    [] c = "+" -> <<"%", "2", "B">>
    [] c = "/" -> <<"%", "2", "F">>
    [] c = "=" -> <<"%", "3", "D">>
    [] c = "?" -> <<"%", "3", "F">>

RECURSIVE PercentDecode(_)
\* percent-decoding, as the upstream applies to a path segment
PercentDecode(s) ==
  IF s = <<>> THEN <<>>
  ELSE IF Len(s) >= 3 /\ \E c \in PctChars : PctOf(c) = SubSeq(s, 1, 3)
       THEN <<CHOOSE c \in PctChars : PctOf(c) = SubSeq(s, 1, 3)>>
            \o PercentDecode(SubSeq(s, 4, Len(s)))
       ELSE <<Head(s)>> \o PercentDecode(Tail(s))

RECURSIVE FormEncode(_)
\* application/x-www-form-urlencoded serialisation of a name or value
\* (URLSearchParams): space becomes +, reserved characters %XX
FormEncode(s) ==
  IF s = <<>> THEN <<>>
  ELSE (IF Head(s) = " " THEN <<"+">>
        ELSE IF Head(s) \in PctChars THEN PctOf(Head(s))
        ELSE <<Head(s)>>) \o FormEncode(Tail(s))

RECURSIVE PlusToSpace(_)
PlusToSpace(s) ==
  IF s = <<>> THEN <<>>
  ELSE <<IF Head(s) = "+" THEN " " ELSE Head(s)>> \o PlusToSpace(Tail(s))

\* application/x-www-form-urlencoded decoding of a name or value
FormDecode(s) == PercentDecode(PlusToSpace(s))

RECURSIVE SerializeSearchParams(_)
SerializeSearchParams(list) ==
  IF list = <<>> THEN <<>>
  ELSE FormEncode(list[1][1]) \o <<"=">> \o FormEncode(list[1][2])
       \o (IF Len(list) = 1 THEN <<>> ELSE <<"&">> \o SerializeSearchParams(Tail(list)))

\* new URL(href): the URL object of a string that has no query
NewURL(href) == [href |-> href, searchParams |-> <<>>]

\* url.searchParams.append(name, value)
SearchParamsAppend(url, name, value) ==
  [url EXCEPT !.searchParams = Append(@, <<name, value>>)]

\* url.toString()
URLToString(url) ==
  url.href \o (IF url.searchParams = <<>> THEN <<>>
               ELSE <<"?">> \o SerializeSearchParams(url.searchParams))

RECURSIVE TrimEnd(_)
\* the URL parser removes trailing spaces from its input
TrimEnd(s) ==
  IF s # <<>> /\ s[Len(s)] = " " THEN TrimEnd(SubSeq(s, 1, Len(s) - 1)) ELSE s

\* The path percent-encode set leaves every character of the model but the
\* space as it is.
PathEncode(c) == IF c = " " THEN PctOf(" ") ELSE <<c>>

\* The path state's handling of a finished segment: ".." removes the last
\* segment, "." is dropped, anything else is appended.
PushSegment(path, buffer, atEnd) ==
  IF buffer = <<".", ".">>
  THEN LET shortened == IF path = <<>> THEN path ELSE SubSeq(path, 1, Len(path) - 1)
       IN  IF atEnd THEN Append(shortened, <<>>) ELSE shortened
  ELSE IF buffer = <<".">>
  THEN IF atEnd THEN Append(path, <<>>) ELSE path
  ELSE Append(path, buffer)

RECURSIVE PathState(_, _, _, _)
PathState(s, i, buffer, path) ==
  IF i > Len(s) THEN PushSegment(path, buffer, TRUE)
  ELSE IF s[i] = "/" THEN PathState(s, i + 1, <<>>, PushSegment(path, buffer, FALSE))
  ELSE PathState(s, i + 1, buffer \o PathEncode(s[i]), path)

\* fetch(url): the parsed URL; the query is Null when the string has no "?"
ParseURL(url) ==
  LET input  == TrimEnd(url)
      rest   == Tail(input)
      h      == IndexFrom(rest, "#", 1)
      noFrag == SubSeq(rest, 1, h - 1)
      q      == IndexFrom(noFrag, "?", 1)
      pathStr == SubSeq(noFrag, 1, q - 1)
  IN  [origin   |-> Head(input),
       path     |-> IF pathStr = <<>> THEN <<>>
                    ELSE PathState(pathStr, 2, <<>>, <<>>),
       query    |-> IF q <= Len(noFrag) THEN SubSeq(noFrag, q + 1, Len(noFrag)) ELSE Null,
       fragment |-> h <= Len(rest)]

RECURSIVE SplitOn(_, _)
\* s split at every token c
SplitOn(s, c) ==
  LET i == IndexFrom(s, c, 1) IN
  IF i > Len(s) THEN <<s>> ELSE <<SubSeq(s, 1, i - 1)>> \o SplitOn(SubSeq(s, i + 1, Len(s)), c)

RECURSIVE DecodePairs(_)
DecodePairs(pieces) ==
  IF pieces = <<>> THEN <<>>
  ELSE LET piece == Head(pieces)
           e     == IndexFrom(piece, "=", 1)
       IN  (IF piece = <<>> THEN <<>>
            ELSE <<<<FormDecode(SubSeq(piece, 1, e - 1)),
                     FormDecode(SubSeq(piece, e + 1, Len(piece)))>>>>)
           \o DecodePairs(Tail(pieces))

\* The name/value pairs the upstream reads from a query string.
ParseQuery(query) == IF query = Null THEN <<>> ELSE DecodePairs(SplitOn(query, "&"))

(***************************************************************************)
(* Inbound requests and the auth gate.                                     *)
(***************************************************************************)
BearerPrefix == <<"B", "e", "a", "r", "e", "r", " ">>
Key1 == <<"k", "1">>
Key2 == <<"k", "2">>

\* Headers.get(name)
HeadersGet(headers, name) == IF name \in DOMAIN headers THEN headers[name] ELSE Null

\* The header sets of inbound requests: no credential, an x-api-key only (the
\* README's client configuration), a non-Bearer Authorization, a Bearer prefix
\* with nothing after it (the gate's own empty-key check), and Bearer keys.
InboundHeaders ==
  { EmptyObject,
    [h \in {"x-api-key"} |-> Key1],
    [h \in {"x-api-key"} |-> <<>>],
    [h \in {"Authorization"} |-> <<"B", "a", "s", "i", "c", " ">> \o Key1],
    [h \in {"Authorization"} |-> BearerPrefix],
    [h \in {"Authorization"} |-> BearerPrefix \o Key1],
    [h \in {"Authorization"} |-> BearerPrefix \o Key2],
    [h \in {"Authorization", "x-api-key"} |->
        IF h = "Authorization" THEN BearerPrefix \o Key2 ELSE Key1] }

Mounts == {"/", "/sse"}

NoProps == [apiKey |-> Null]

\* The Response of a request the gate hands to the MCP transport: the outer
\* transport answers 2xx for any accepted call.
HandlerResponse == [status |-> 200, body |-> "mcp"]

\* withAuth(handler)(req, env, ctx): either a 401 Response, or ctx.props set
\* and the wrapped handler called.
withAuth(req) ==
  LET authHeader == HeadersGet(req.headers, "Authorization") IN
  IF ~Truthy(authHeader) \/ ~StartsWith(authHeader, BearerPrefix)
  THEN [handled  |-> FALSE,
        response |-> [status |-> 401, body |-> "Bearer token required"],
        props    |-> NoProps]
  ELSE LET apiKey == Slice(authHeader, 7) IN
       IF ~Truthy(apiKey)
       THEN [handled  |-> FALSE,
             response |-> [status |-> 401, body |-> "API Key required"],
             props    |-> NoProps]
       ELSE [handled  |-> TRUE,
             response |-> HandlerResponse,
             props    |-> [apiKey |-> apiKey]]

\* A mount that is not wrapped: "/sse" served without the gate.
AppFetchSseUnguarded(req) ==
  IF req.mount = "/sse"
  THEN [handled |-> TRUE, response |-> HandlerResponse, props |-> NoProps]
  ELSE withAuth(req)

\* app.mount("/", withAuth(MyMCP.serve("/").fetch)) and
\* app.mount("/sse", withAuth(MyMCP.serveSSE("/sse").fetch))
AppFetch(req) == withAuth(req)

NoRequest == [mount |-> "/", headers |-> EmptyObject]

IdleConn ==
  [state |-> "new", req |-> NoRequest,
   response |-> [status |-> 0, body |-> ""], props |-> NoProps]

\* The connection after its request went through the mount.
Served(req) ==
  LET out == AppFetch(req) IN
  [state    |-> IF out.handled THEN "open" ELSE "rejected",
   req      |-> req,
   response |-> out.response,
   props    |-> out.props]

\* An inbound request, with one of the given header sets, arrives on
\* connection c (connections are numbered in the order they arrive) at one of
\* the given mounts.
Inbound(c, mounts, headerSets) ==
  /\ conns[c].state = "new"
  /\ \A d \in 1..(c - 1) : conns[d].state # "new"
  /\ \E mount \in mounts, headers \in headerSets :
       conns' = [conns EXCEPT ![c] = Served([mount |-> mount, headers |-> headers])]
  /\ UNCHANGED calls

(***************************************************************************)
(* The four tools (MyMCP.init).                                            *)
(***************************************************************************)
\* One props object shared by every session: the first connection's.
SessionPropsShared(c) == conns[1].props

\* this.props of the agent that serves connection c
SessionProps(c) == conns[c].props

\* headers: { "Content-Type": "application/json", "x-api-key": this.props.apiKey }
OutboundHeaders(props) ==
  [h \in {"Content-Type", "x-api-key"} |->
     IF h = "Content-Type" THEN <<"application/json">> ELSE props.apiKey]

\* The defaults applied with || instead of ??: a limit of 0 is replaced.
RequestBodyOr(params) ==
  Set(Set(params, "limit",
          IF Get(params, "limit").t = "undefined" \/ Get(params, "limit").n = 0
          THEN JNum(20) ELSE Get(params, "limit")),
      "filters", Coalesce(Get(params, "filters"), JObj(<<>>)))

\* search: { ...params, limit: params.limit ?? 20, filters: params.filters ?? {} }
RequestBody(params) ==
  Set(Set(params, "limit", Coalesce(Get(params, "limit"), JNum(20))),
      "filters", Coalesce(Get(params, "filters"), JObj(<<>>)))

search_fetch(params, props) ==
  [method  |-> "POST",
   url     |-> BASE_URL \o <<"/", "search">>,
   headers |-> OutboundHeaders(props),
   body    |-> JSONStringify(RequestBody(params))]

get_product_detail_fetch(params, props) ==
  LET product_id == Get(params, "product_id").s IN
  [method  |-> "GET",
   url     |-> BASE_URL \o <<"/", "products", "/">> \o product_id,
   headers |-> OutboundHeaders(props),
   body    |-> Null]

\* page and size given defaults (1 and 100) and always appended.
BrandsURLDefaults(params) ==
  LET u0 == NewURL(BASE_URL \o <<"/", "brands">>)
      u1 == IF Get(params, "query").t # "undefined"
            THEN SearchParamsAppend(u0, <<"query">>, Get(params, "query").s) ELSE u0
      u2 == SearchParamsAppend(u1, <<"page">>,
              NumToString(Coalesce(Get(params, "page"), JNum(1)).n))
      u3 == SearchParamsAppend(u2, <<"size">>,
              NumToString(Coalesce(Get(params, "size"), JNum(100)).n))
  IN  u3

\* get_brands: the URL with query, page and size appended when not undefined
BrandsURL(params) ==
  LET u0 == NewURL(BASE_URL \o <<"/", "brands">>)
      u1 == IF Get(params, "query").t # "undefined"
            THEN SearchParamsAppend(u0, <<"query">>, Get(params, "query").s) ELSE u0
      u2 == IF Get(params, "page").t # "undefined"
            THEN SearchParamsAppend(u1, <<"page">>, NumToString(Get(params, "page").n)) ELSE u1
      u3 == IF Get(params, "size").t # "undefined"
            THEN SearchParamsAppend(u2, <<"size">>, NumToString(Get(params, "size").n)) ELSE u2
  IN  u3

get_brands_fetch(params, props) ==
  [method  |-> "GET",
   url     |-> URLToString(BrandsURL(params)),
   headers |-> OutboundHeaders(props),
   body    |-> Null]

get_brand_detail_fetch(params, props) ==
  LET brand_id == Get(params, "brand_id").s IN
  [method  |-> "GET",
   url     |-> BASE_URL \o <<"/", "brands", "/">> \o brand_id,
   headers |-> OutboundHeaders(props),
   body    |-> Null]

\* The fetch a tool's handler issues.
ToolFetch(tool, params, props) ==
  CASE tool = "search"             -> search_fetch(params, props)
    [] tool = "get_product_detail" -> get_product_detail_fetch(params, props)
    [] tool = "get_brands"         -> get_brands_fetch(params, props)
    [] tool = "get_brand_detail"   -> get_brand_detail_fetch(params, props)

\* The words each handler's messages start with.
FailedPrefix(tool) ==
  CASE tool = "search"             -> <<"Search failed (">>
    [] tool = "get_product_detail" -> <<"Get product failed (">>
    [] tool = "get_brands"         -> <<"Get brands failed (">>
    [] tool = "get_brand_detail"   -> <<"Get brand failed (">>

ErrorPrefix(tool) ==
  CASE tool = "search"             -> <<"Search error: ">>
    [] tool = "get_product_detail" -> <<"Get product error: ">>
    [] tool = "get_brands"         -> <<"Get brands error: ">>
    [] tool = "get_brand_detail"   -> <<"Get brand error: ">>

\* { content: [{ type: "text", text }], isError }; a result without isError
\* has the flag unset
ToolResult(text, isError) ==
  [content |-> <<[type |-> "text", text |-> text]>>, isError |-> isError]

\* String(err) of an Error
ErrString(err) ==
  IF err.message = <<>> THEN err.name ELSE err.name \o <<": ">> \o err.message

\* resp.ok
Ok(resp) == 200 <= resp.status /\ resp.status <= 299

NoResponse == [status |-> 0, statusText |-> <<>>, body |-> <<>>, readable |-> TRUE]
NoParams == JObj(<<>>)

NoFault == [name |-> <<>>, message |-> <<>>]

\* A call: the handler's position (pc), its connection, tool and parameters,
\* the requests it has issued, the upstream's answer (resp) or the failure of
\* its fetch (fault), the results it has returned, and whether an exception
\* left the handler (threw).
IdleCall ==
  [pc |-> "idle", conn |-> 0, tool |-> "search", params |-> NoParams,
   requests |-> <<>>, resp |-> NoResponse, fault |-> NoFault,
   results |-> <<>>, threw |-> FALSE]

\* The handler returns a result to its caller.
Return(cl, result) == [cl EXCEPT !.pc = "done", !.results = Append(@, result)]

\* The handler is entered with (params): it builds the request and awaits fetch.
Enter(cl, c, tool, params) ==
  [cl EXCEPT !.pc = "fetch", !.conn = c, !.tool = tool, !.params = params,
             !.requests = Append(@, ToolFetch(tool, params, SessionProps(c)))]

\* No try/catch around the handler's body: the error leaves the handler.
CatchRethrow(cl, err) == [cl EXCEPT !.pc = "done", !.threw = TRUE]

\* catch (err): { content: [{ text: `... error: ${err?.message || String(err)}` }], isError: true }
Catch(cl, err) ==
  Return(cl, ToolResult(ErrorPrefix(cl.tool) \o OrElse(err.message, ErrString(err)), TRUE))

\* fetch resolved: if (!resp.ok) the handler awaits resp.text(), else resp.json()
Resolved(cl, resp) ==
  [cl EXCEPT !.resp = resp, !.pc = IF Ok(resp) THEN "json" ELSE "text"]

\* The status phrase left out of the message.
NotOkBodyOnly(cl) ==
  LET errorText == IF cl.resp.readable THEN cl.resp.body ELSE <<>> IN
  Return(cl, ToolResult(FailedPrefix(cl.tool) \o NumToString(cl.resp.status) \o <<"): ">>
                          \o errorText, TRUE))

\* A non-2xx answer retried: the same request is issued again.
NotOkRetry(cl) ==
  [cl EXCEPT !.pc = "fetch", !.requests = Append(@, cl.requests[1])]

\* const errorText = await resp.text().catch(() => "");
\* return { ... `... failed (${resp.status}): ${errorText || resp.statusText}`, isError: true }
NotOk(cl) ==
  LET errorText == IF cl.resp.readable THEN cl.resp.body ELSE <<>> IN
  Return(cl, ToolResult(FailedPrefix(cl.tool) \o NumToString(cl.resp.status) \o <<"): ">>
                          \o OrElse(errorText, cl.resp.statusText), TRUE))

\* The error resp.json() rejects with when the body cannot be read.
BodyReadError == [name |-> <<"TypeError">>, message |-> <<"Network connection lost.">>]

\* The body passed on as it came, not parsed and serialised again.
JsonRawText(cl) ==
  IF ~cl.resp.readable THEN Catch(cl, BodyReadError)
  ELSE IF JSONParse(cl.resp.body).ok THEN Return(cl, ToolResult(cl.resp.body, FALSE))
  ELSE Catch(cl, [name |-> <<"SyntaxError">>, message |-> JSONParse(cl.resp.body).message])

\* const data = await resp.json(); return { content: [{ text: JSON.stringify(data) }] }
Json(cl) ==
  IF ~cl.resp.readable THEN Catch(cl, BodyReadError)
  ELSE LET data == JSONParse(cl.resp.body) IN
       IF data.ok THEN Return(cl, ToolResult(JSONStringify(data.value), FALSE))
       ELSE Catch(cl, [name |-> <<"SyntaxError">>, message |-> data.message])

(***************************************************************************)
(* Actions.                                                                *)
(***************************************************************************)
\* A tools/call with one of the given inputs arrives on connection c (calls
\* are numbered in the order they arrive); only a request the gate handed to
\* the transport reaches a handler.
ToolCall(k, c, inputs) ==
  /\ calls[k].pc = "idle"
  /\ \A j \in 1..(k - 1) : calls[j].pc # "idle"
  /\ conns[c].state = "open"
  /\ \E in \in inputs : calls' = [calls EXCEPT ![k] = Enter(@, c, in.tool, in.params)]
  /\ UNCHANGED conns

\* The upstream answers the call's request with one of the given responses.
FetchResolves(k, responses) ==
  /\ calls[k].pc = "fetch"
  /\ \E resp \in responses : calls' = [calls EXCEPT ![k] = Resolved(@, resp)]
  /\ UNCHANGED conns

\* One abort signal shared by a connection's fetches: a rejection ends every
\* fetch in flight on the connection of call k.
FetchRejectsSharedSignal(k, errors) ==
  /\ calls[k].pc = "fetch"
  /\ \E err \in errors :
       calls' = [j \in CallIds |->
                   IF calls[j].pc = "fetch" /\ calls[j].conn = calls[k].conn
                   THEN Catch([calls[j] EXCEPT !.fault = err], err)
                   ELSE calls[j]]
  /\ UNCHANGED conns

\* The call's fetch rejects: a network-level failure, one of the given errors.
FetchRejects(k, errors) ==
  /\ calls[k].pc = "fetch"
  /\ \E err \in errors :
       calls' = [calls EXCEPT ![k] = Catch([@ EXCEPT !.fault = err], err)]
  /\ UNCHANGED conns

\* The promise call k awaits at pc settles, and the handler runs on to cl.
Settle(k, pc, cl) ==
  /\ calls[k].pc = pc
  /\ calls' = [calls EXCEPT ![k] = cl]
  /\ UNCHANGED conns

\* resp.text() settles in the !resp.ok branch.
TextSettles(k) == Settle(k, "text", NotOk(calls[k]))

\* resp.json() settles.
JsonSettles(k) == Settle(k, "json", Json(calls[k]))

(***************************************************************************)
(* The environment: upstream answers and tool inputs.                      *)
(***************************************************************************)
ProductsJson ==
  JObj(<<Member("products", JArr(<<JObj(<<Member("id", JStr(<<"p1">>))>>)>>))>>)

Response(status, statusText, body, readable) ==
  [status |-> status, statusText |-> statusText, body |-> body, readable |-> readable]

\* 2xx with JSON (compact, and with insignificant whitespace), 2xx with a body
\* that is no JSON, 204 with no body, a 2xx whose body read fails, and non-2xx
\* answers with and without a body and a status phrase.
Responses ==
  { Response(200, <<"OK">>, JSONStringify(ProductsJson), TRUE),
    Response(200, <<"OK">>, <<"{", " ", Quote, "n", Quote, ":", " ", "1", "2", "}">>, TRUE),
    Response(200, <<"OK">>, <<"<html>">>, TRUE),
    Response(204, <<"No Content">>, <<>>, TRUE),
    Response(200, <<"OK">>, JSONStringify(ProductsJson), FALSE),
    Response(404, <<"Not Found">>, <<>>, TRUE),
    Response(404, <<>>, <<>>, TRUE),
    Response(500, <<"Internal Server Error">>, <<"boom">>, TRUE),
    Response(502, <<"Bad Gateway">>, <<"partial">>, FALSE) }

NetworkErrors ==
  { [name |-> <<"TypeError">>, message |-> <<"connection refused">>] }

ToolInput(tool, params) == [tool |-> tool, params |-> params]

\* One input per tool, for the runs that interleave calls and connections.
Inputs ==
  { ToolInput("search", JObj(<<Member("query", JStr(<<"red sneakers">>))>>)),
    ToolInput("get_product_detail", JObj(<<Member("product_id", JStr(<<"abc123">>))>>)),
    ToolInput("get_brands", JObj(<<>>)),
    ToolInput("get_brand_detail", JObj(<<Member("brand_id", JStr(<<"b1">>))>>)) }

\* The inputs the request-building runs draw from: every combination of
\* present and absent optional fields, in the order of the schema.
Optional(key, values) == {<<>>} \cup {<<Member(key, val)>> : val \in values}

FiltersValues ==
  { JObj(<<>>),
    JObj(<<Member("gender", JStr(<<"male">>))>>),
    JObj(<<Member("brand_ids", JArr(<<JStr(<<"b1">>)>>)),
           Member("price", JObj(<<Member("min_price", JNum(1))>>))>>) }

SearchInputs ==
  { ToolInput("search", JObj(q \o u \o l \o f \o x)) :
      q \in Optional("query", {JStr(<<"red sneakers">>)}),
      u \in Optional("image_url", {JStr(<<"img">>)}),
      l \in Optional("limit", {JNum(0), JNum(5), JNum(20)}),
      f \in Optional("filters", FiltersValues),
      x \in Optional("context", {JStr(<<"budget">>)}) }

QueryAlphabet == {"a", " ", "&", "=", "+", "#"}

BrandsInputs ==
  { ToolInput("get_brands", JObj(q \o pg \o sz)) :
      q \in Optional("query", {JStr(v) : v \in StringsUpTo(QueryAlphabet, MaxQueryLen)}),
      pg \in Optional("page", {JNum(1), JNum(12)}),
      sz \in Optional("size", {JNum(0), JNum(100)}) }

IdAlphabet == {"a", "/", "?", "#", ".", " "}

Ids == StringsUpTo(IdAlphabet, MaxIdLen) \cup {<<"abc123">>}

DetailInputs ==
  {ToolInput("get_product_detail", JObj(<<Member("product_id", JStr(id))>>)) : id \in Ids}
  \cup {ToolInput("get_brand_detail", JObj(<<Member("brand_id", JStr(id))>>)) : id \in Ids}

BuildInputs == SearchInputs \cup BrandsInputs \cup DetailInputs

\* The header sets of the runs that interleave calls and connections.
BearerHeaders ==
  { EmptyObject,
    [h \in {"Authorization"} |-> BearerPrefix \o Key1],
    [h \in {"Authorization"} |-> BearerPrefix \o Key2] }

\* The upstream answers of the runs that are about the gate.
FewResponses ==
  { Response(200, <<"OK">>, JSONStringify(ProductsJson), TRUE),
    Response(500, <<"Internal Server Error">>, <<"boom">>, TRUE) }

Init ==
  /\ conns = [c \in Conns |-> IdleConn]
  /\ calls = [k \in CallIds |-> IdleCall]

\* Calls and connections interleaved, every upstream answer.
Next ==
  \/ \E c \in Conns : Inbound(c, {"/"}, BearerHeaders)
  \/ \E k \in CallIds, c \in Conns : ToolCall(k, c, Inputs)
  \/ \E k \in CallIds : FetchResolves(k, Responses)
  \/ \E k \in CallIds : FetchRejects(k, NetworkErrors)
  \/ \E k \in CallIds : TextSettles(k)
  \/ \E k \in CallIds : JsonSettles(k)

Spec == Init /\ [][Next]_vars

\* Every inbound header set on both mounts.
NextGate ==
  \/ \E c \in Conns : Inbound(c, Mounts, InboundHeaders)
  \/ \E k \in CallIds, c \in Conns : ToolCall(k, c, Inputs)
  \/ \E k \in CallIds : FetchResolves(k, FewResponses)
  \/ \E k \in CallIds : FetchRejects(k, NetworkErrors)
  \/ \E k \in CallIds : TextSettles(k)
  \/ \E k \in CallIds : JsonSettles(k)

SpecGate == Init /\ [][NextGate]_vars

\* One connection, one call: every tool input, every upstream answer.
NextBuild ==
  \/ Inbound(1, Mounts, {[h \in {"Authorization"} |-> BearerPrefix \o Key1]})
  \/ ToolCall(1, 1, BuildInputs)
  \/ FetchResolves(1, Responses)
  \/ FetchRejects(1, NetworkErrors)
  \/ TextSettles(1)
  \/ JsonSettles(1)

SpecBuild == Init /\ [][NextBuild]_vars

(***************************************************************************)
(* Properties.                                                             *)
(***************************************************************************)
Gated == {c \in Conns : conns[c].state # "new"}
Issued == {k \in CallIds : calls[k].requests # <<>>}
Done == {k \in CallIds : calls[k].pc = "done"}

\* The text of a call's only result.
ResultText(k) == calls[k].results[1].content[1].text

\* A request with no Authorization: Bearer header and no (or an empty)
\* x-api-key header, or whose Bearer prefix is followed by nothing.
Unauthenticated(headers) ==
  LET auth == HeadersGet(headers, "Authorization")
      xkey == HeadersGet(headers, "x-api-key")
  IN  \/ /\ auth = Null \/ ~StartsWith(auth, BearerPrefix)
         /\ ~Truthy(xkey)
      \/ auth = BearerPrefix

\* C1: on both mounts a request without a credential, or with an empty key,
\* is answered 401 with "Bearer token required" or "API Key required", no
\* handler runs for it and no upstream request is issued for it; every
\* upstream request comes from a connection that passed the gate.
C1_UnauthenticatedRejected ==
  /\ \A c \in Gated :
       Unauthenticated(conns[c].req.headers) =>
         /\ conns[c].state = "rejected"
         /\ conns[c].response.status = 401
         /\ conns[c].response.body \in {"Bearer token required", "API Key required"}
         /\ \A k \in CallIds : calls[k].pc # "idle" => calls[k].conn # c
  /\ \A k \in CallIds :
       calls[k].pc # "idle" =>
         /\ conns[calls[k].conn].state = "open"
         /\ withAuth(conns[calls[k].conn].req).handled

\* C1 witness: a request without any credential was rejected on "/sse", while
\* a call of another connection, which passed the gate, has been issued.
C1_Witness ==
  /\ conns[1].state = "rejected" /\ conns[1].req.mount = "/sse"
  /\ conns[1].req.headers = EmptyObject
  /\ conns[1].response = [status |-> 401, body |-> "Bearer token required"]
  /\ conns[2].state = "open"
  /\ \E k \in Issued : calls[k].conn = 2

\* C2: a request with no Authorization header and a non-empty x-api-key header
\* passes the gate, and the session's key is the x-api-key value.
C2_ApiKeyHeaderAccepted ==
  \A c \in Gated :
    LET h == conns[c].req.headers IN
    (HeadersGet(h, "Authorization") = Null /\ Truthy(HeadersGet(h, "x-api-key"))) =>
      /\ conns[c].state = "open"
      /\ conns[c].props.apiKey = HeadersGet(h, "x-api-key")

\* The key a connection presented at the gate.
PresentedKey(c) == Slice(HeadersGet(conns[c].req.headers, "Authorization"), 7)

\* C3: every upstream request of every tool carries, as x-api-key, the key
\* its own connection presented at the gate, whatever else is in flight; no
\* step changes the key of an open connection.
C3_KeyOfOwnConnection ==
  /\ [](\A k \in Issued : \A i \in 1..Len(calls[k].requests) :
          /\ "x-api-key" \in DOMAIN calls[k].requests[i].headers
          /\ calls[k].requests[i].headers["x-api-key"] = PresentedKey(calls[k].conn)
          /\ calls[k].requests[i].headers["Content-Type"] = <<"application/json">>)
  /\ [][\A c \in Conns : conns[c].state = "open" =>
          /\ conns'[c].props = conns[c].props
          /\ conns[c].props.apiKey = PresentedKey(c)]_vars

\* C3 witness: two connections with different keys each have a call in flight,
\* a POST on one and a GET on the other.
C3_Witness ==
  /\ conns[1].state = "open" /\ conns[2].state = "open"
  /\ PresentedKey(1) # PresentedKey(2)
  /\ calls[1].pc = "fetch" /\ calls[2].pc = "fetch"
  /\ calls[1].conn = 2 /\ calls[2].conn = 1
  /\ calls[1].requests[1].method = "POST" /\ calls[2].requests[1].method = "GET"

\* Calls whose fetch resolved with a non-2xx answer and whose handler is over.
DoneNotOk == {k \in Done : calls[k].resp.status # 0 /\ ~Ok(calls[k].resp)}

\* C4: for every tool, a non-2xx answer yields one result with the error flag
\* set, whose text holds the status code, and the body text when there is one,
\* the status phrase otherwise; nothing is thrown.
C4_NotOkIsErrorResult ==
  \A k \in DoneNotOk :
    LET resp == calls[k].resp
        text == ResultText(k)
    IN  /\ ~calls[k].threw
        /\ Len(calls[k].results) = 1
        /\ calls[k].results[1].isError
        /\ Contains(text, NumToString(resp.status))
        /\ (resp.readable /\ resp.body # <<>>) => Contains(text, resp.body)
        /\ (~resp.readable \/ resp.body = <<>>) => Contains(text, resp.statusText)

\* C4 witness: get_product_detail of "abc123" was answered 500 with body
\* "boom", and the result is the error "Get product failed (500): boom".
C4_Witness ==
  /\ 1 \in DoneNotOk
  /\ calls[1].tool = "get_product_detail"
  /\ calls[1].params = JObj(<<Member("product_id", JStr(<<"abc123">>))>>)
  /\ calls[1].resp.status = 500 /\ calls[1].resp.body = <<"boom">>
  /\ calls[1].results[1].isError
  /\ ResultText(1) = <<"Get product failed (", "5", "0", "0", "): ", "boom">>

\* Calls whose 2xx answer had a body that could be read.
DoneOkRead == {k \in Done : Ok(calls[k].resp) /\ calls[k].resp.readable}

\* C5: for every tool, a fetch that fails at the network level, a 2xx body
\* that cannot be read and a 2xx body that is no JSON each end the call, in
\* the step the failure happens, with one error-flagged result whose text
\* holds the failure's message; no exception leaves a handler.
C5_FailureIsErrorResult ==
  \A k \in CallIds :
    /\ ~calls[k].threw
    /\ calls[k].fault # NoFault =>
         /\ calls[k].pc = "done" /\ Len(calls[k].results) = 1
         /\ calls[k].results[1].isError
         /\ Contains(ResultText(k), calls[k].fault.message)
    /\ (k \in Done /\ Ok(calls[k].resp) /\ ~calls[k].resp.readable) =>
         /\ Len(calls[k].results) = 1 /\ calls[k].results[1].isError
         /\ Contains(ResultText(k), BodyReadError.message)
    /\ k \in DoneOkRead =>
         LET data == JSONParse(calls[k].resp.body) IN
         ~data.ok =>
           /\ Len(calls[k].results) = 1 /\ calls[k].results[1].isError
           /\ Contains(ResultText(k), data.message)

\* C5 witness: a get_brand_detail call was ended by a refused connection, and
\* its result is the error "Get brand error: connection refused".
C5_Witness ==
  /\ calls[1].pc = "done" /\ calls[1].tool = "get_brand_detail"
  /\ calls[1].fault.message = <<"connection refused">>
  /\ calls[1].results[1].isError
  /\ ResultText(1) = <<"Get brand error: ", "connection refused">>

\* The body {"products":[{"id":"p1"}]}, character by character.
ProductsText ==
  <<"{", Quote, "products", Quote, ":", "[", "{", Quote, "id", Quote, ":",
    Quote, "p1", Quote, "}", "]", "}">>

\* C9: for every tool, a 2xx answer whose body parses as JSON yields a result
\* without the error flag and with one text item, the JSON serialisation of
\* the parsed body; the body {"products":[{"id":"p1"}]} yields itself.
C9_SuccessIsSerializedJson ==
  \A k \in DoneOkRead :
    LET data == JSONParse(calls[k].resp.body)
        text == ResultText(k)
        back == JSONParse(text)
    IN  data.ok =>
          /\ Len(calls[k].results) = 1
          /\ ~calls[k].results[1].isError
          /\ Len(calls[k].results[1].content) = 1
          /\ calls[k].results[1].content[1].type = "text"
          /\ text = JSONStringify(data.value)
          /\ back.ok /\ back.value = data.value
          /\ \A i \in 1..Len(text) : text[i] \notin Whitespace
          /\ calls[k].resp.body = ProductsText => text = ProductsText

\* C9 witness: search for "red sneakers" was answered 200 with the body
\* {"products":[{"id":"p1"}]}, and the result is that text, not an error.
C9_Witness ==
  /\ 1 \in DoneOkRead
  /\ calls[1].tool = "search"
  /\ calls[1].params = JObj(<<Member("query", JStr(<<"red sneakers">>))>>)
  /\ calls[1].resp.body = ProductsText /\ ResultText(1) = ProductsText
  /\ ~calls[1].results[1].isError

\* C10: a tool invocation issues exactly one upstream request, and returns
\* exactly one result when it is over, whatever the outcome: no second
\* request after a non-2xx answer, a network failure or a parse failure, and
\* an error result exactly when one of these happened.
C10_OneRequestOneResult ==
  \A k \in CallIds :
    /\ Len(calls[k].requests) = (IF calls[k].pc = "idle" THEN 0 ELSE 1)
    /\ Len(calls[k].results) = (IF calls[k].pc = "done" THEN 1 ELSE 0)
    /\ calls[k].pc = "done" =>
         calls[k].results[1].isError =
           (calls[k].fault # NoFault \/ ~Ok(calls[k].resp) \/ ~calls[k].resp.readable
              \/ ~JSONParse(calls[k].resp.body).ok)

\* C10 witness: on one connection a call answered 500 and a call whose fetch
\* failed are both over, each with one request and one error result.
C10_Witness ==
  /\ calls[1].pc = "done" /\ calls[1].resp.status = 500
  /\ Len(calls[1].requests) = 1 /\ Len(calls[1].results) = 1
  /\ calls[2].pc = "done" /\ calls[2].fault # NoFault
  /\ Len(calls[2].requests) = 1 /\ Len(calls[2].results) = 1
  /\ calls[1].conn = calls[2].conn

\* What the upstream is asked for by call k's request.
Target(k) == ParseURL(calls[k].requests[1].url)

IssuedOf(tools) == {k \in Issued : calls[k].tool \in tools}

\* The body the claim describes for search parameters p: p's own members,
\* with limit 20 and filters {} for the ones p lacks.
DefaultedMembers(p) ==
  MemberSet(p)
    \cup (IF Get(p, "limit").t = "undefined" THEN {Member("limit", JNum(20))} ELSE {})
    \cup (IF Get(p, "filters").t = "undefined" THEN {Member("filters", JObj(<<>>))} ELSE {})

\* C6: every search call sends POST /v0/search with a JSON body equal to the
\* input in which an omitted limit is 20 and omitted filters are {}; a given
\* limit or filters value is forwarded as it is, and an optional field the
\* input lacks is not in the body.
C6_SearchBodyDefaults ==
  \A k \in IssuedOf({"search"}) :
    LET req  == calls[k].requests[1]
        body == JSONParse(req.body)
        to   == Target(k)
    IN  /\ Len(calls[k].requests) = 1
        /\ req.method = "POST"
        /\ to.origin = Origin
        /\ to.path = <<<<"v0">>, <<"search">>>>
        /\ to.query = Null /\ ~to.fragment
        /\ body.ok /\ body.value.t = "obj"
        /\ Len(body.value.m) = Cardinality(MemberSet(body.value))
        /\ MemberSet(body.value) = DefaultedMembers(calls[k].params)

\* C6 witness: a search with only a query was sent with limit 20 and filters
\* {} added.
C6_Witness ==
  /\ calls[1].tool = "search" /\ calls[1].pc = "fetch"
  /\ calls[1].params = JObj(<<Member("query", JStr(<<"red sneakers">>))>>)
  /\ calls[1].requests[1].body =
       <<"{", Quote, "query", Quote, ":", Quote, "red sneakers", Quote, ",",
         Quote, "limit", Quote, ":", "2", "0", ",",
         Quote, "filters", Quote, ":", "{", "}", "}">>

\* The name/value pairs the claim describes for get_brands parameters p.
PresentPairs(p) ==
  (IF Get(p, "query").t = "undefined" THEN {} ELSE {<<<<"query">>, Get(p, "query").s>>})
    \cup (IF Get(p, "page").t = "undefined" THEN {}
          ELSE {<<<<"page">>, NumToString(Get(p, "page").n)>>})
    \cup (IF Get(p, "size").t = "undefined" THEN {}
          ELSE {<<<<"size">>, NumToString(Get(p, "size").n)>>})

\* get_brands asks for GET /v0/brands, and the pairs the upstream decodes from
\* the query string are exactly the parameters the input holds, each once and
\* with the input's value.
BrandsParamsAsGiven(k, to, pairs) ==
  /\ Len(calls[k].requests) = 1
  /\ calls[k].requests[1].method = "GET"
  /\ to.origin = Origin
  /\ to.path = <<<<"v0">>, <<"brands">>>>
  /\ ~to.fragment
  /\ {pairs[i] : i \in 1..Len(pairs)} = PresentPairs(calls[k].params)
  /\ Len(pairs) = Cardinality(PresentPairs(calls[k].params))
  /\ \A i \in 1..Len(pairs) :
       pairs[i][1] \in {<<"page">>, <<"size">>} =>
         /\ JSONParse(pairs[i][2]).ok
         /\ JSONParse(pairs[i][2]).value = Get(calls[k].params, pairs[i][1][1])

\* C7 as stated: every get_brands call sends the parameters the input holds,
\* and never a query=, page= or size= with an empty value.
C7_NoEmptyValueEver ==
  \A k \in IssuedOf({"get_brands"}) :
    LET to    == Target(k)
        pairs == ParseQuery(to.query)
    IN  /\ BrandsParamsAsGiven(k, to, pairs)
        /\ \A i \in 1..Len(pairs) : pairs[i][2] # <<>>

\* C7, amended: every get_brands call sends GET /v0/brands with exactly the
\* parameters the input holds, with the input's values; a parameter the input
\* lacks is not in the URL, and the only parameter ever sent with an empty
\* value is a query whose input value is the empty string.
C7_OnlyPresentParams ==
  \A k \in IssuedOf({"get_brands"}) :
    LET to    == Target(k)
        pairs == ParseQuery(to.query)
    IN  /\ BrandsParamsAsGiven(k, to, pairs)
        /\ \A i \in 1..Len(pairs) :
             pairs[i][2] = <<>> =>
               /\ pairs[i][1] = <<"query">>
               /\ Get(calls[k].params, "query") = JStr(<<>>)

\* C7 witness: a call with query "a&" and size 100 and no page was sent as
\* ?query=a%26&size=100.
C7_Witness ==
  /\ calls[1].tool = "get_brands" /\ calls[1].pc = "fetch"
  /\ calls[1].params =
       JObj(<<Member("query", JStr(<<"a", "&">>)), Member("size", JNum(100))>>)
  /\ calls[1].requests[1].url =
       BASE_URL \o <<"/", "brands", "?", "query", "=", "a", "%", "2", "6", "&",
                     "size", "=", "1", "0", "0">>

\* The identifier a detail call was given, and the collection it names.
DetailId(k) ==
  IF calls[k].tool = "get_product_detail"
  THEN Get(calls[k].params, "product_id").s ELSE Get(calls[k].params, "brand_id").s
DetailCollection(k) ==
  IF calls[k].tool = "get_product_detail" THEN <<"products">> ELSE <<"brands">>

\* C8: every get_product_detail (get_brand_detail) call sends a GET whose
\* path is /v0/products/<id> (/v0/brands/<id>) with the identifier escaped:
\* one segment after the collection, which decodes to the identifier, and no
\* query string or fragment.
C8_IdEscapedIntoPath ==
  \A k \in IssuedOf({"get_product_detail", "get_brand_detail"}) :
    LET to == Target(k) IN
    /\ calls[k].requests[1].method = "GET"
    /\ to.origin = Origin
    /\ Len(to.path) = 3
    /\ to.path[1] = <<"v0">>
    /\ to.path[2] = DetailCollection(k)
    /\ PercentDecode(to.path[3]) = DetailId(k)
    /\ to.query = Null
    /\ ~to.fragment

\* The request a call with these parameters issues when it is the only call
\* of a connection holding this key.
RequestAlone(tool, params, key) == ToolFetch(tool, params, [apiKey |-> key])

\* The results such a call returns when its fetch fails with fault, or, with
\* no fault, is answered resp.
ResultsAlone(tool, params, key, resp, fault) ==
  LET entered == [IdleCall EXCEPT !.pc = "fetch", !.tool = tool, !.params = params,
                                  !.requests = <<RequestAlone(tool, params, key)>>]
  IN  IF fault # NoFault THEN Catch(entered, fault).results
      ELSE IF Ok(resp) THEN Json(Resolved(entered, resp)).results
      ELSE NotOk(Resolved(entered, resp)).results

\* Call k can take its next step, and a connection can take a further call.
CanProceed(k) ==
  CASE calls[k].pc = "fetch" ->
         ENABLED FetchResolves(k, Responses) /\ ENABLED FetchRejects(k, NetworkErrors)
    [] calls[k].pc = "text"  -> \E cl \in {NotOk(calls[k])} : ENABLED Settle(k, "text", cl)
    [] calls[k].pc = "json"  -> \E cl \in {Json(calls[k])} : ENABLED Settle(k, "json", cl)
    [] OTHER -> TRUE
CanCall(c) ==
  \A k \in CallIds :
    (calls[k].pc = "idle" /\ \A j \in 1..(k - 1) : calls[j].pc # "idle") =>
      ENABLED ToolCall(k, c, Inputs)

\* C11: calls running concurrently, on one connection or on several, do not
\* interact. In every reachable state, each call's request is the one it
\* would issue alone for its parameters and its connection's key, and a
\* finished call's results are the ones it would return alone for the answer
\* or failure of its own fetch; whatever the other calls have come to, every
\* call in flight can take its next step and every open connection accepts a
\* further call. Every step touches one call at most and leaves every open
\* connection as it was.
C11_CallsDoNotInteract ==
  /\ [](\A k \in Issued :
          /\ calls[k].requests[1] =
               RequestAlone(calls[k].tool, calls[k].params, PresentedKey(calls[k].conn))
          /\ k \in Done =>
               calls[k].results =
                 ResultsAlone(calls[k].tool, calls[k].params, PresentedKey(calls[k].conn),
                              calls[k].resp, calls[k].fault))
  /\ [](\A k \in CallIds : CanProceed(k))
  /\ [](\A c \in Conns : conns[c].state = "open" => CanCall(c))
  /\ [][/\ \A j, k \in CallIds :
              (calls'[j] # calls[j] /\ calls'[k] # calls[k]) => j = k
        /\ \A c \in Conns : conns[c].state = "open" => conns'[c] = conns[c]]_vars

\* C11 witness: on one connection, a search ended by a refused connection and
\* a get_product_detail answered 200 with {"products":[{"id":"p1"}]} are both
\* over, the first with its error and the second with that text.
C11_Witness ==
  /\ calls[1].pc = "done" /\ calls[2].pc = "done"
  /\ calls[1].conn = calls[2].conn
  /\ calls[1].tool = "search" /\ calls[1].fault.message = <<"connection refused">>
  /\ calls[1].results[1].isError
  /\ ResultText(1) = <<"Search error: ", "connection refused">>
  /\ calls[2].tool = "get_product_detail"
  /\ calls[2].resp.status = 200 /\ calls[2].resp.body = ProductsText
  /\ ~calls[2].results[1].isError /\ ResultText(2) = ProductsText

=============================================================================
